---- MODULE Spec2Model ----
(***************************************************************************)
(* Model of the book-translate browser application: the FileUpload         *)
(* validator, the App session state (useState<TranslationState>), the      *)
(* asynchronous handleStartTranslation attempts and the streaming          *)
(* translateDocumentStream client.                                         *)
(*                                                                         *)
(* Texts are sequences of characters, messages are sequences of text       *)
(* pieces, nullable values are records with a `null` field.                *)
(***************************************************************************)
EXTENDS Integers, Sequences, FiniteSets, TLC

\* ---------------------------------------------------------------- bounds
MaxAttempts == 2      \* attempts of handleStartTranslation in flight at once
MaxFrags == 2         \* fragments one response stream delivers
MaxUrls == 2          \* calls of URL.createObjectURL

\* ---------------------------------------------------------------- types.ts
MAX_FILE_SIZE_MB == 200
MAX_FILE_SIZE_BYTES == MAX_FILE_SIZE_MB * 1024 * 1024

IDLE == "IDLE"
READING_FILE == "READING_FILE"
TRANSLATING == "TRANSLATING"
COMPLETED == "COMPLETED"
ERROR == "ERROR"
TranslationStatus == {IDLE, READING_FILE, TRANSLATING, COMPLETED, ERROR}

\* ---------------------------------------------------------------- values
PDF == "application/pdf"
NoFile == [null |-> TRUE, size |-> 0, type |-> ""]
File(sz, ty) == [null |-> FALSE, size |-> sz, type |-> ty]
\* candidate files the user may drop or browse: below, at and above the ceiling
CandidateSizes == {5 * 1024 * 1024, MAX_FILE_SIZE_BYTES, MAX_FILE_SIZE_BYTES + 1}
CandidateTypes == {PDF, "text/plain"}
CandidateFiles == {File(sz, ty) : sz \in CandidateSizes, ty \in CandidateTypes}

NullMsg == [null |-> TRUE, text |-> <<>>]
Msg(t) == [null |-> FALSE, text |-> t]
Contains(m, piece) == (~m.null) /\ (\E i \in 1..Len(m.text) : m.text[i] = piece)

TooLargeMsg == <<"File is ", "too large", ". Maximum size is ", "200", "MB.">>
WrongTypeMsg == <<"Only PDF files are currently supported.">>
ApiKeyMissingMsg == <<"API Key", " is missing. Please set process.env.API_KEY.">>
FailedToTranslateMsg == <<"Failed to translate document.">>
UnknownErrorMsg == <<"An unknown error occurred during translation.">>
\* error.message of what the remote call or the stream throws ('' when it has none)
RemoteMessages == {<<>>, <<"503 Service Unavailable">>}

\* text fragments a stream chunk can carry (chunk.text); <<>> is the empty text
Fragments == {<<>>, <<"a">>}

NoUrl == 0

\* revoked: the object URLs URL.revokeObjectURL has been called on;
\* mounted: whether App is still mounted
VARIABLES state, error, apiKey, attempts, urlCount, lastOp, revoked, mounted
vars == <<state, error, apiKey, attempts, urlCount, lastOp, revoked, mounted>>

\* attempts: the calls of handleStartTranslation in flight, oldest first. Each
\* is suspended in its file read ("reading") or in translateDocumentStream
\* ("streaming"), and carries the fragments its stream has delivered so far
\* and (ghost) whether a reset or a file selection has happened since it started
AttemptIds == 1..Len(attempts)
NewAttempt == [pc |-> "reading", received |-> <<>>, superseded |-> FALSE]
\* the attempt settles: its promise resolves or rejects
Settle(as, a) == SubSeq(as, 1, a - 1) \o SubSeq(as, a + 1, Len(as))

\* F1 + F2 + ... + Fn
RECURSIVE Concat(_)
Concat(frags) == IF frags = <<>> THEN <<>> ELSE Head(frags) \o Concat(Tail(frags))

\* ---------------------------------------------------------------- App state
InitialState == [status |-> IDLE, originalFile |-> NoFile, fileUrl |-> NoUrl,
                 translatedText |-> <<>>, errorMessage |-> NullMsg]

Init ==
    /\ state = InitialState
    /\ error = NullMsg
    /\ apiKey \in {"", "key"}
    /\ attempts = <<>>
    /\ urlCount = 0
    /\ lastOp = [op |-> "init", file |-> NoFile, repeat |-> FALSE]
    /\ revoked = {}
    /\ mounted = TRUE

\* ghost: the handler or callback that ran last; for the validator the file it
\* was given; for a reset whether the handler before it was a reset too
Op(o) == [op |-> o, file |-> NoFile, repeat |-> FALSE]
ValidateOp(o, f) == [Op(o) EXCEPT !.file = f]

InFlight == {a \in AttemptIds : attempts[a].pc \in {"reading", "streaming"}}
Streaming == {a \in AttemptIds : attempts[a].pc = "streaming"}
\* ghost: a reset or a file selection supersedes every attempt started before it
Supersede(as) == [a \in 1..Len(as) |-> [as[a] EXCEPT !.superseded = TRUE]]

\* ---------------------------------------------------------------- rendering
UploadRendered(s) == s.originalFile.null
ResetOffered(s) == ~s.originalFile.null
StartOffered(s) == (~s.originalFile.null) /\ s.status \in {IDLE, ERROR}
\* the "Download Book" button of the header
HeaderDownload(s) == s.status = COMPLETED
\* the "Download Translated Book" button under the translated text
PanelDownloadWhileTranslating(s) ==
    /\ ~s.originalFile.null
    /\ s.status # IDLE /\ s.status # ERROR
    /\ s.status \in {TRANSLATING, COMPLETED}
PanelDownload(s) ==
    /\ ~s.originalFile.null
    /\ s.status # IDLE /\ s.status # ERROR
    /\ s.status \in {TRANSLATING, COMPLETED}
    /\ s.status = COMPLETED
DownloadOffered(s) == HeaderDownload(s) \/ PanelDownload(s)

\* ---------------------------------------------------------------- setState updaters
FileSelectedState(file, url) ==
    [status |-> IDLE, originalFile |-> file, fileUrl |-> url,
     translatedText |-> <<>>, errorMessage |-> NullMsg]
ResetStateKeepsText ==
    [state EXCEPT !.status = IDLE, !.originalFile = NoFile, !.fileUrl = NoUrl,
                  !.errorMessage = NullMsg]
ResetState == [status |-> IDLE, originalFile |-> NoFile, fileUrl |-> NoUrl,
               translatedText |-> <<>>, errorMessage |-> NullMsg]
SetReading(prev) == [prev EXCEPT !.status = READING_FILE]
SetTranslating(prev) == [prev EXCEPT !.status = TRANSLATING, !.translatedText = <<>>]
OnChunk(prev, chunk) == [prev EXCEPT !.translatedText = prev.translatedText \o chunk]
SetCompletedForgets(prev) == prev
SetCompleted(prev) == [prev EXCEPT !.status = COMPLETED]
SetErrorNoFallback(prev, message) ==
    [prev EXCEPT !.status = ERROR, !.errorMessage = Msg(message)]
\* error.message || "An unknown error occurred during translation."
SetError(prev, message) ==
    [prev EXCEPT !.status = ERROR,
                 !.errorMessage = Msg(IF message = <<>> THEN UnknownErrorMsg ELSE message)]

\* ---------------------------------------------------------------- effects
\* the cleanup returned by useEffect(..., [state.fileUrl]): the URLs it revokes,
\* given the state.fileUrl of the render that created it
EffectCleanupNothing(fileUrl) == {}
EffectCleanup(fileUrl) == IF fileUrl # NoUrl THEN {fileUrl} ELSE {}
\* revoked URLs after the commit of a state update: when state.fileUrl has
\* changed, the cleanup of the previous effect runs before the new effect
Commit(prev, next) ==
    IF next.fileUrl # prev.fileUrl THEN revoked \cup EffectCleanup(prev.fileUrl) ELSE revoked

\* ---------------------------------------------------------------- FileUpload
TooLargeAtCeiling(file) == file.size >= MAX_FILE_SIZE_BYTES
TooLargeOffByOne(file) == file.size > MAX_FILE_SIZE_BYTES + 1
TooLarge(file) == file.size > MAX_FILE_SIZE_BYTES
WrongTypeNever(file) == FALSE
WrongType(file) == file.type # PDF

HandleFileSelect(file) ==
    /\ urlCount < MaxUrls
    /\ urlCount' = urlCount + 1
    /\ state' = FileSelectedState(file, urlCount + 1)
    /\ attempts' = Supersede(attempts)
    /\ revoked' = Commit(state, state')

ValidateAndPassFile(file) ==
    /\ UploadRendered(state)
    /\ IF TooLarge(file)
       THEN /\ error' = Msg(TooLargeMsg)
            /\ lastOp' = ValidateOp("rejected", file)
            /\ UNCHANGED <<state, attempts, urlCount, revoked>>
       ELSE IF WrongType(file)
       THEN /\ error' = Msg(WrongTypeMsg)
            /\ lastOp' = ValidateOp("rejected", file)
            /\ UNCHANGED <<state, attempts, urlCount, revoked>>
       ELSE /\ HandleFileSelect(file)
            /\ error' = NullMsg
            /\ lastOp' = ValidateOp("selected", file)
    /\ UNCHANGED <<apiKey, mounted>>

\* ---------------------------------------------------------------- App handlers
ReturnsEarlyNever(s) == FALSE
ReturnsEarly(s) == s.originalFile.null

HandleStartTranslation ==
    IF ReturnsEarly(state)
    THEN /\ lastOp' = Op("start")
         /\ UNCHANGED <<state, error, apiKey, attempts, urlCount, revoked, mounted>>
    ELSE /\ Len(attempts) < MaxAttempts
         /\ state' = SetReading(state)
         /\ attempts' = Append(attempts, NewAttempt)
         /\ lastOp' = Op("started")
         /\ revoked' = Commit(state, state')
         /\ UNCHANGED <<error, apiKey, urlCount, mounted>>

HandleReset ==
    /\ state' = ResetState
    /\ attempts' = Supersede(attempts)
    /\ lastOp' = [Op("reset") EXCEPT !.repeat = (lastOp.op = "reset")]
    /\ revoked' = Commit(state, state')
    /\ UNCHANGED <<error, apiKey, urlCount, mounted>>

HandleDownload ==
    /\ lastOp' = Op("download")
    /\ UNCHANGED <<state, error, apiKey, attempts, urlCount, revoked, mounted>>

\* ---------------------------------------------------------------- async steps
MissingKeyNever(key) == FALSE
MissingKey(key) == key = ""

\* reader.onload: the read succeeded; setState(TRANSLATING) and the call of
\* translateDocumentStream, which throws at once without a key
ReaderOnLoad(a) ==
    /\ attempts[a].pc = "reading"
    /\ IF MissingKey(apiKey)
       THEN /\ state' = SetError(SetTranslating(state), ApiKeyMissingMsg)
            /\ attempts' = Settle(attempts, a)
       ELSE /\ state' = SetTranslating(state)
            /\ attempts' = [attempts EXCEPT ![a].pc = "streaming"]
    /\ lastOp' = Op("onload")
    /\ revoked' = Commit(state, state')
    /\ UNCHANGED <<error, apiKey, urlCount, mounted>>

\* reader.onerror = reject: the rejection value is a ProgressEvent, without message
ReaderOnError(a) ==
    /\ attempts[a].pc = "reading"
    /\ state' = SetError(state, <<>>)
    /\ attempts' = Settle(attempts, a)
    /\ lastOp' = Op("onerror")
    /\ revoked' = Commit(state, state')
    /\ UNCHANGED <<error, apiKey, urlCount, mounted>>

\* one iteration of `for await (const chunk of responseStream)`
StreamChunk(a, chunkText) ==
    /\ attempts[a].pc = "streaming"
    /\ Len(attempts[a].received) < MaxFrags
    /\ attempts' = [attempts EXCEPT ![a].received = Append(@, chunkText)]
    /\ state' = IF chunkText # <<>> THEN OnChunk(state, chunkText) ELSE state
    /\ lastOp' = Op("chunk")
    /\ revoked' = Commit(state, state')
    /\ UNCHANGED <<error, apiKey, urlCount, mounted>>

\* the stream ends: translateDocumentStream returns fullText
StreamEnd(a) ==
    /\ attempts[a].pc = "streaming"
    /\ state' = SetCompleted(state)
    /\ attempts' = Settle(attempts, a)
    /\ lastOp' = Op("end")
    /\ revoked' = Commit(state, state')
    /\ UNCHANGED <<error, apiKey, urlCount, mounted>>

\* throw new Error(error.message || "Failed to translate document.")
WrapRemoteError(message) == IF message = <<>> THEN FailedToTranslateMsg ELSE message

\* generateContentStream rejects or the stream throws while iterating
StreamThrows(a, message) ==
    /\ attempts[a].pc = "streaming"
    /\ state' = SetError(state, WrapRemoteError(message))
    /\ attempts' = Settle(attempts, a)
    /\ lastOp' = Op("throw")
    /\ revoked' = Commit(state, state')
    /\ UNCHANGED <<error, apiKey, urlCount, mounted>>

\* App unmounts (the page is left): the cleanup of the mounted effect runs;
\* later setState calls of attempts still in flight have no effect
Unmount ==
    /\ mounted
    /\ mounted' = FALSE
    /\ revoked' = revoked \cup EffectCleanup(state.fileUrl)
    /\ lastOp' = Op("unmount")
    /\ UNCHANGED <<state, error, apiKey, attempts, urlCount>>

\* ---------------------------------------------------------------- user clicks
ClickStart == mounted /\ StartOffered(state) /\ HandleStartTranslation
ClickReset == mounted /\ ResetOffered(state) /\ HandleReset
ClickDownload == mounted /\ DownloadOffered(state) /\ HandleDownload
SelectFile == mounted /\ \E file \in CandidateFiles : ValidateAndPassFile(file)
OnLoad == mounted /\ \E a \in AttemptIds : ReaderOnLoad(a)
OnError == mounted /\ \E a \in AttemptIds : ReaderOnError(a)
Chunk == mounted /\ \E a \in AttemptIds, chunkText \in Fragments : StreamChunk(a, chunkText)
End == mounted /\ \E a \in AttemptIds : StreamEnd(a)
Throw == mounted /\ \E a \in AttemptIds, message \in RemoteMessages : StreamThrows(a, message)

Async == OnLoad \/ OnError \/ Chunk \/ End \/ Throw

Next == SelectFile \/ ClickStart \/ ClickReset \/ ClickDownload \/ Async \/ Unmount

Spec == Init /\ [][Next]_vars

\* The handlers as functions, also where no button leads to them:
\* handleStartTranslation called while there is no file (the case its first
\* line is written for) and handleReset called in any state.
StartWithoutFile == mounted /\ state.originalFile.null /\ HandleStartTranslation
ResetAnywhere == mounted /\ HandleReset
NextHandlers == Next \/ StartWithoutFile \/ ResetAnywhere
SpecHandlers == Init /\ [][NextHandlers]_vars

\* the session is neither reset nor left, and every file read and every
\* remote stream eventually finishes or fails: FileReader fires onload or
\* onerror, the for-await loop ends or the stream throws
NextLive == SelectFile \/ ClickStart \/ ClickDownload \/ Async
SpecLive ==
    /\ Init
    /\ [][NextLive]_vars
    /\ WF_vars(OnLoad \/ OnError)
    /\ WF_vars(End \/ Throw)

TypeOK ==
    /\ state.status \in TranslationStatus
    /\ state.fileUrl \in 0..MaxUrls
    /\ urlCount \in 0..MaxUrls
    /\ apiKey \in {"", "key"}
    /\ Len(attempts) <= MaxAttempts
    /\ \A a \in AttemptIds : attempts[a].pc \in {"reading", "streaming"}
    /\ revoked \subseteq 1..MaxUrls
    /\ mounted \in BOOLEAN

\* ================================================================ claims
EmptySession == [status |-> "IDLE", originalFile |-> NoFile, fileUrl |-> 0,
                 translatedText |-> <<>>, errorMessage |-> NullMsg]
ValidatorRan(op) == op.op \in {"rejected", "selected"}

\* C1: when the stream of an attempt that no reset or file selection has
\* superseded ends, state.translatedText is the concatenation, in arrival
\* order, of the fragments that stream delivered, and nothing else.
C1_TextIsConcatenationOfFragments ==
    [][\A a \in AttemptIds :
          (StreamEnd(a) /\ ~attempts[a].superseded)
              => state'.translatedText = Concat(attempts[a].received)]_vars

\* C2: a fragment delivered by an attempt that a reset (or a file selection)
\* has superseded leaves state.translatedText unchanged.
C2_StaleFragmentIgnored ==
    [][\A a \in AttemptIds :
          (attempts[a].superseded /\ \E chunkText \in Fragments : StreamChunk(a, chunkText))
              => state'.translatedText = state.translatedText]_vars

\* C3: in every reachable state at most one handleStartTranslation attempt is
\* in flight (reading its file or awaiting translateDocumentStream).
C3_AtMostOneInFlight == Cardinality(InFlight) <= 1

\* C4: handleReset, from any state, yields the session {IDLE, no file, no
\* url, empty text, no error message}; a reset right after a reset changes
\* nothing.
C4_ResetYieldsEmptySession ==
    [][lastOp'.op = "reset"
          => /\ state' = EmptySession
             /\ (lastOp'.repeat => state' = state)]_vars
C4_Witness ==
    /\ lastOp.op = "reset" /\ lastOp.repeat
    /\ state = EmptySession
    /\ InFlight # {}

\* C5: handleStartTranslation called while state.originalFile is null changes
\* no field of the session and starts no attempt (no file read, no call of
\* translateDocumentStream).
C5_StartWithoutFileIsNoOp ==
    [][(lastOp'.op \in {"start", "started"} /\ state.originalFile.null)
          => /\ lastOp'.op = "start"
             /\ state' = state
             /\ attempts' = attempts]_vars
C5_Witness ==
    /\ lastOp.op = "start"
    /\ state.originalFile.null
    /\ state.status # IDLE

\* C6 as stated: without an API key every attempt ends with status ERROR and
\* an errorMessage containing "API Key", generateContentStream not called.
C6_MissingKeyAlwaysReported ==
    (apiKey = "" /\ lastOp.op \in {"onload", "onerror"})
        => /\ state.status = "ERROR"
           /\ Contains(state.errorMessage, "API Key")
           /\ Streaming = {}

\* C6 amended: without an API key every attempt ends with status ERROR and
\* without a call of generateContentStream; the errorMessage contains
\* "API Key" when the file read succeeded.
C6_MissingKeyReportedAfterRead ==
    apiKey = ""
        => /\ Streaming = {}
           /\ lastOp.op \notin {"chunk", "end", "throw"}
           /\ lastOp.op \in {"onload", "onerror"} => state.status = "ERROR"
           /\ lastOp.op = "onload" => Contains(state.errorMessage, "API Key")
C6_Witness ==
    /\ apiKey = ""
    /\ lastOp.op = "onload"
    /\ state.status = "ERROR"
    /\ ~state.originalFile.null

\* C7: when the stream of an attempt that nothing has superseded fails after
\* k >= 0 fragments, status is ERROR and state.translatedText is the
\* concatenation of those k fragments.
C7_ErrorKeepsAccumulatedText ==
    [][\A a \in AttemptIds :
          ((\E message \in RemoteMessages : StreamThrows(a, message)) /\ ~attempts[a].superseded)
              => /\ state'.status = "ERROR"
                 /\ state'.translatedText = Concat(attempts[a].received)]_vars

\* C8: a download button is rendered only when status is COMPLETED, and
\* handleDownload runs only then.
C8_DownloadOnlyWhenCompleted ==
    /\ (HeaderDownload(state) \/ PanelDownload(state)) => state.status = "COMPLETED"
    /\ lastOp.op = "download" => state.status = "COMPLETED"
C8_Witness ==
    /\ lastOp.op = "download"
    /\ state.translatedText # <<>>

\* C9: a candidate file larger than MAX_FILE_SIZE_BYTES is rejected with the
\* "too large" message, onFileSelect is not called and the session is
\* unchanged.
C9_TooLargeRejected ==
    [][(ValidatorRan(lastOp') /\ lastOp'.file.size > 200 * 1024 * 1024)
          => /\ lastOp'.op = "rejected"
             /\ Contains(error', "too large")
             /\ state' = state
             /\ urlCount' = urlCount]_vars
C9_Witness ==
    /\ lastOp.op = "rejected"
    /\ lastOp.file = File(200 * 1024 * 1024 + 1, "application/pdf")
    /\ Contains(error, "too large")

\* C10 as stated: a candidate file whose type is not 'application/pdf',
\* whatever its size, is rejected with the PDF-only message and onFileSelect
\* is not called.
C10_WrongTypeAlwaysPdfOnlyMessage ==
    [][(ValidatorRan(lastOp') /\ lastOp'.file.type # "application/pdf")
          => /\ lastOp'.op = "rejected"
             /\ error' = Msg(WrongTypeMsg)
             /\ urlCount' = urlCount]_vars

\* C10 amended: a candidate file whose type is not 'application/pdf' is
\* rejected and onFileSelect is not called; the message is the PDF-only
\* message when the size is at most MAX_FILE_SIZE_BYTES and the "too large"
\* message otherwise.
C10_WrongTypeRejected ==
    [][(ValidatorRan(lastOp') /\ lastOp'.file.type # "application/pdf")
          => /\ lastOp'.op = "rejected"
             /\ state' = state
             /\ urlCount' = urlCount
             /\ IF lastOp'.file.size <= 200 * 1024 * 1024
                THEN error' = Msg(WrongTypeMsg)
                ELSE Contains(error', "too large")]_vars
C10_Witness ==
    /\ lastOp.op = "rejected"
    /\ lastOp.file = File(200 * 1024 * 1024, "text/plain")
    /\ error = Msg(WrongTypeMsg)

\* C11: validateAndPassFile calls onFileSelect with the file, once, exactly
\* when the size is at most MAX_FILE_SIZE_BYTES and the type is
\* 'application/pdf'; after an acceptance no validation error is set.
C11_AcceptedIffValid ==
    [][ValidatorRan(lastOp')
          => /\ (lastOp'.op = "selected")
                   <=> /\ lastOp'.file.size <= 200 * 1024 * 1024
                       /\ lastOp'.file.type = "application/pdf"
             /\ lastOp'.op = "selected"
                   => /\ state'.originalFile = lastOp'.file
                      /\ urlCount' = urlCount + 1
                      /\ error' = NullMsg
             /\ lastOp'.op = "rejected"
                   => (urlCount' = urlCount /\ state' = state)]_vars
C11_Witness ==
    /\ lastOp.op = "selected"
    /\ lastOp.file = File(200 * 1024 * 1024, "application/pdf")
    /\ state.originalFile = lastOp.file
    /\ error = NullMsg

\* C12: across every step with status TRANSLATING before and after it, the
\* length of state.translatedText does not decrease.
C12_TextLengthNonDecreasing ==
    [][(state.status = "TRANSLATING" /\ state'.status = "TRANSLATING")
          => Len(state'.translatedText) >= Len(state.translatedText)]_vars

\* C13: status becomes TRANSLATING only by a step from READING_FILE, and that
\* step leaves translatedText empty; no step from IDLE, COMPLETED or ERROR
\* leads to TRANSLATING.
C13_TranslatingOnlyFromReading ==
    [][(state'.status = "TRANSLATING" /\ state.status # "TRANSLATING")
          => /\ state.status = "READING_FILE"
             /\ state'.translatedText = <<>>]_vars

\* C14: a file read error, a missing key, a remote call error and a stream
\* failure each leave status ERROR; whenever status is ERROR the errorMessage
\* is neither null nor empty; a file read error settles the attempt without a
\* call of translateDocumentStream (no attempt starts streaming).
C14_FailuresMapToError ==
    [][/\ lastOp'.op \in {"onerror", "throw"} => state'.status = "ERROR"
       /\ (lastOp'.op = "onload" /\ apiKey = "") => state'.status = "ERROR"
       /\ state'.status = "ERROR"
             => (~state'.errorMessage.null /\ state'.errorMessage.text # <<>>)
       /\ lastOp'.op = "onerror"
             => /\ Len(attempts') = Len(attempts) - 1
                /\ Cardinality(Streaming') = Cardinality(Streaming)]_vars
C14_Witness ==
    /\ lastOp.op = "onerror"
    /\ state.status = "ERROR"
    /\ state.errorMessage = Msg(UnknownErrorMsg)
    /\ ~state.originalFile.null

\* C15: every object URL created by handleFileSelect is revoked once it is
\* superseded or the session ends: while App is mounted the only unrevoked
\* URL is the current state.fileUrl (none when it is null), and after the
\* unmount none is left.
C15_OnlyCurrentUrlUnrevoked ==
    LET created == 1..urlCount
        live == created \ revoked
    IN  /\ revoked \subseteq created
        /\ mounted => live = (IF state.fileUrl = 0 THEN {} ELSE {state.fileUrl})
        /\ ~mounted => live = {}
C15_Witness ==
    /\ urlCount = 2
    /\ revoked = {1, 2}
    /\ ~mounted
    /\ state.fileUrl = 2

\* C16: in every reachable state a status other than IDLE implies that
\* originalFile is not null.
C16_StatusImpliesFile ==
    state.status \in {"READING_FILE", "TRANSLATING", "COMPLETED", "ERROR"}
        => ~state.originalFile.null

\* C17: a step that makes status COMPLETED is the successful end of an attempt
\* that no reset or file selection has superseded, and translatedText is then
\* what that attempt's stream delivered; the end of a superseded attempt does
\* not make the session COMPLETED.
C17_CompletedByCurrentAttempt ==
    [][(state'.status = "COMPLETED" /\ state.status # "COMPLETED")
          => \E a \in AttemptIds :
                /\ StreamEnd(a)
                /\ ~attempts[a].superseded
                /\ state'.translatedText = Concat(attempts[a].received)]_vars
\* C18: when the file read and the remote stream each eventually finish or
\* fail and the user neither resets nor selects a file, a session in
\* READING_FILE or TRANSLATING eventually reaches COMPLETED or ERROR.
C18_AttemptTerminates ==
    (state.status \in {"READING_FILE", "TRANSLATING"})
        ~> (state.status \in {"COMPLETED", "ERROR"})
C18_Witness ==
    /\ state.status = "COMPLETED"
    /\ lastOp.op = "end"
    /\ attempts = <<>>
    /\ state.translatedText = <<"a", "a">>

====
